---- MODULE Spec2Model ----
(***************************************************************************)
(* Transport and protocol-framing core of the Couchbase client:            *)
(*   - key/value operations get and lookup_in (encode_to / make_response), *)
(*   - the analytics_index_get_all HTTP operation (make_response),         *)
(*   - the plain and TLS stream implementations (io/streams.hxx).          *)
(* Each subsystem has its own specification (Spec, SpecHttp, SpecStream);  *)
(* the variables of the other subsystems stay at their initial value.      *)
(***************************************************************************)
EXTENDS Integers, Sequences, FiniteSets, TLC

VARIABLES
    \* ---- key/value operations (document_get.hxx, document_lookup_in.hxx)
    op,          \* which operation the request is: "get" or "lookup_in"
    request,     \* the request object (id, opaque, specs.entries)
    submitted,   \* history: the spec list as the caller submitted it
    encoded,     \* the encoded request frame (what goes on the wire)
    encodes,     \* number of encode_to calls made on the request
    doc,         \* the document stored on the server (what each path looks up to)
    kvec,        \* the error code the session passes to make_response
    frame,       \* the decoded response frame handed to make_response
    response,    \* the response object make_response returned
    writes,      \* history: indexes of response.fields written by the copy loop
    kvpc,        \* "built" -> "encoded" -> "received" -> "done"
    \* ---- analytics_index_get_all (analytics_index_get_all.hxx)
    hreq,        \* the request (client_context_id)
    henc,        \* the encoded http request
    hin,         \* the inputs of make_response: error code and http body
    hout,        \* the response make_response returned
    hpc,         \* "built" -> "encoded" -> "received" -> "done" | "thrown"
    \* ---- streams (io/streams.hxx)
    stream,      \* the stream object: tls_ and the socket's open flag
    ops,         \* per asynchronous operation: its stage and completion code
    running,     \* per worker thread: the completion it is executing
    calls,       \* history: the invocations of the caller's handlers
    hist         \* history: what happened on the stream so far

kvVars == <<op, request, submitted, encoded, encodes, doc, kvec, frame, response, writes, kvpc>>
httpVars == <<hreq, henc, hin, hout, hpc>>
ioVars == <<stream, ops, running, calls, hist>>
vars == <<kvVars, httpVars, ioVars>>

(***************************************************************************)
(* Bounds of the model.                                                    *)
(***************************************************************************)
MaxSpecs == 3        \* longest spec list a caller submits
MaxEncodes == 2      \* encode_to calls on one request (first send + re-sends)
MaxExtraFields == 1  \* decoded fields a frame may carry beyond the spec count
MaxRecords == 2      \* longest results / errors array of an analytics body
NumThreads == 2      \* worker threads running the shared io_context
MaxIo == 2           \* async_write / async_read_some calls made on one stream
MaxCloses == 2       \* close calls made on one stream

(***************************************************************************)
(* Key/value operations                                                    *)
(***************************************************************************)

\* std::error_code: NoError is the default-constructed (unset) code.
NoError == "no_error"
ErrorCodes == {NoError, "request_timeout"}

\* protocol::lookup_in_request_body::lookup_in_specs::path_flag_xattr
path_flag_xattr == 4

\* flags & path_flag_xattr, on 8-bit flags
XattrBit(flags) == ((flags \div path_flag_xattr) % 2) * path_flag_xattr

\* The spec entries a caller may submit: body and xattr paths, one body path
\* with another flag bit set.
SpecChoices ==
    { [opcode |-> "get",    path |-> "a",     flags |-> 0],
      [opcode |-> "exists", path |-> "b",     flags |-> 1],
      [opcode |-> "get",    path |-> "$xtoc", flags |-> 4],
      [opcode |-> "exists", path |-> "$doc",  flags |-> 5] }

Paths == { c.path : c \in SpecChoices }

SeqsUpTo(S, n) == UNION { [1..k -> S] : k \in 0..n }

\* lookup_in_specs::entry as the caller built it; original_index is stamped
\* by encode_to before it is ever read.
Entry(c) == [opcode |-> c.opcode, path |-> c.path, flags |-> c.flags, original_index |-> 0]

\* Correlation tokens a request may carry (0 is the default of the field).
Opaques == {0, 7}

\* The comparator of encode_to's stable_sort.
XattrFirst(lhs, rhs) == XattrBit(lhs.flags) > XattrBit(rhs.flags)

\* One insertion step of a stable sort: x goes after every element that is
\* not ordered after it.
RECURSIVE InsertEntry(_, _)
InsertEntry(s, x) ==
    IF s = <<>> THEN <<x>>
    ELSE IF XattrFirst(x, s[Len(s)])
         THEN Append(InsertEntry(SubSeq(s, 1, Len(s) - 1), x), s[Len(s)])
         ELSE Append(s, x)

RECURSIVE SortEntries(_)
SortEntries(s) ==
    IF s = <<>> THEN <<>>
    ELSE InsertEntry(SortEntries(SubSeq(s, 1, Len(s) - 1)), s[Len(s)])

\* Mutant: a sort that is not stable (ties come out reversed).
RECURSIVE InsertEntryUnstable(_, _)
InsertEntryUnstable(s, x) ==
    IF s = <<>> THEN <<x>>
    ELSE IF ~XattrFirst(s[Len(s)], x)
         THEN Append(InsertEntryUnstable(SubSeq(s, 1, Len(s) - 1), x), s[Len(s)])
         ELSE Append(s, x)

RECURSIVE SortEntriesUnstable(_)
SortEntriesUnstable(s) ==
    IF s = <<>> THEN <<>>
    ELSE InsertEntryUnstable(SortEntriesUnstable(SubSeq(s, 1, Len(s) - 1)), s[Len(s)])

\* std::stable_sort(specs.entries.begin(), specs.entries.end(), xattr first)
stable_sort(entries) == SortEntries(entries)

\* Mutant: the stamping loop is missing.
StampNothing(entries) == entries

\* Mutant: the stamped index is one based.
StampOneBased(entries) ==
    [i \in 1..Len(entries) |-> [entries[i] EXCEPT !.original_index = i]]

\* The loop of encode_to that stamps entry.original_index = i (zero based).
StampIndexes(entries) ==
    [i \in 1..Len(entries) |-> [entries[i] EXCEPT !.original_index = i - 1]]

\* lookup_in_request::encode_to, its effect on request.specs.entries
lookup_in_encode_specs(entries) == stable_sort(StampIndexes(entries))

\* lookup_in_request::encode_to, the frame it fills
lookup_in_encode_to(req) ==
    [opaque |-> req.opaque, partition |-> req.partition, id |-> req.id,
     specs |-> lookup_in_encode_specs(req.specs)]

\* get_request::encode_to, the frame it fills
get_encode_to(req) ==
    [opaque |-> req.opaque, partition |-> req.partition, id |-> req.id, specs |-> <<>>]

\* The documents the server may hold: what each path looks up to.
Docs ==
    { [cas |-> 42, flags |-> 0, value |-> "hello",
       paths |-> [p \in Paths |->
           CASE p = "a"     -> [status |-> "success",                value |-> "A1"]
             [] p = "b"     -> [status |-> "subdoc_path_not_found",  value |-> ""]
             [] p = "$xtoc" -> [status |-> "success",                value |-> "X1"]
             [] p = "$doc"  -> [status |-> "subdoc_success_deleted", value |-> "D1"]]],
      [cas |-> 43, flags |-> 2, value |-> "",
       paths |-> [p \in Paths |->
           CASE p = "a"     -> [status |-> "subdoc_path_not_found",  value |-> ""]
             [] p = "b"     -> [status |-> "success",                value |-> "B2"]
             [] p = "$xtoc" -> [status |-> "subdoc_success_deleted", value |-> "X2"]
             [] p = "$doc"  -> [status |-> "success",                value |-> "D2"]]] }

\* A decoded field the server sent beyond the specs it was asked for.
ExtraField == [status |-> "success", value |-> "extra"]

\* The default-constructed encoded_response_type (nothing was decoded).
EmptyFrame == [opaque |-> 0, cas |-> 0, flags |-> 0, value |-> "", fields |-> <<>>]

\* The fields of a lookup_in response frame: k results in transmission order,
\* the i-th being the lookup of the i-th transmitted spec.
ServerFields(d, specs, k) ==
    [i \in 1..k |-> IF i <= Len(specs) THEN d.paths[specs[i].path] ELSE ExtraField]

\* lookup_in_response::field after fields.resize(): value-initialized.
DefaultField ==
    [opcode |-> "0", exists |-> FALSE, status |-> "success", path |-> "",
     value |-> "", original_index |-> 0]

\* make_response, first loop: seed every field from the request's entry.
SeedFields(entries) ==
    [i \in 1..Len(entries) |->
        [DefaultField EXCEPT !.original_index = entries[i].original_index,
                             !.opcode = entries[i].opcode,
                             !.path = entries[i].path,
                             !.status = "success"]]

\* exists as make_response derives it from the status of a decoded field
\* Mutant: only the plain success status counts as existing.
FieldExistsSuccessOnly(status) == status = "success"

FieldExists(status) == status = "success" \/ status = "subdoc_success_deleted"

\* Mutant: the second loop does not copy the value.
CopyFieldsWithoutValue(fields, decoded) ==
    [i \in 1..Len(fields) |->
        IF i <= Len(decoded)
        THEN [fields[i] EXCEPT !.status = decoded[i].status,
                               !.exists = FieldExists(decoded[i].status)]
        ELSE fields[i]]

\* make_response, second loop: copy the decoded fields by position. The
\* writes at positions past the end of fields do not land in the array.
CopyFields(fields, decoded) ==
    [i \in 1..Len(fields) |->
        IF i <= Len(decoded)
        THEN [fields[i] EXCEPT !.status = decoded[i].status,
                               !.exists = FieldExists(decoded[i].status),
                               !.value = decoded[i].value]
        ELSE fields[i]]

\* The zero-based indexes response.fields[i] the second loop writes.
CopyIndexes(decoded) == 0 .. (Len(decoded) - 1)

\* The comparator of make_response's std::sort.
IndexBefore(lhs, rhs) == lhs.original_index < rhs.original_index

RECURSIVE InsertField(_, _)
InsertField(s, x) ==
    IF s = <<>> THEN <<x>>
    ELSE IF IndexBefore(x, s[Len(s)])
         THEN Append(InsertField(SubSeq(s, 1, Len(s) - 1), x), s[Len(s)])
         ELSE Append(s, x)

RECURSIVE SortFields(_)
SortFields(s) ==
    IF s = <<>> THEN <<>>
    ELSE InsertField(SortFields(SubSeq(s, 1, Len(s) - 1)), s[Len(s)])

\* Mutant: the fields are returned in transmission order.
NoSort(fields) == fields

\* std::sort(response.fields.begin(), response.fields.end(), by original_index);
\* the keys are distinct (encode_to stamps 0..n-1), so the order is determined.
sort_by_original_index(fields) == SortFields(fields)

\* Mutant: the opaque of the frame is kept even when there is none.
OpaqueOfFrameOnly(ec, req, enc) == enc.opaque

\* make_response (get and lookup_in alike): the correlation token
ResponseOpaque(ec, req, enc) ==
    IF ec # NoError /\ enc.opaque = 0 THEN req.opaque ELSE enc.opaque

\* make_response(ec, lookup_in_request&, encoded_response_type)
lookup_in_make_response(ec, req, enc) ==
    [id |-> req.id, opaque |-> ResponseOpaque(ec, req, enc), ec |-> ec,
     cas |-> IF ec = NoError THEN enc.cas ELSE 0,
     fields |-> IF ec = NoError
                THEN sort_by_original_index(CopyFields(SeedFields(req.specs), enc.fields))
                ELSE <<>>]

\* Mutant: the payload of the frame is copied whatever the error code.
get_make_response_copies_always(ec, req, enc) ==
    [id |-> req.id, opaque |-> ResponseOpaque(ec, req, enc), ec |-> ec,
     value |-> enc.value, cas |-> enc.cas, flags |-> enc.flags]

\* make_response(ec, get_request&, encoded_response_type)
get_make_response(ec, req, enc) ==
    [id |-> req.id, opaque |-> ResponseOpaque(ec, req, enc), ec |-> ec,
     value |-> IF ec = NoError THEN enc.value ELSE "",
     cas |-> IF ec = NoError THEN enc.cas ELSE 0,
     flags |-> IF ec = NoError THEN enc.flags ELSE 0]

\* The response frame echoes the token of the request, or carries none (0).
WireOpaques(req) == {0, req.opaque}

InitKV ==
    /\ op \in {"get", "lookup_in"}
    /\ submitted \in IF op = "get" THEN {<<>>} ELSE SeqsUpTo(SpecChoices, MaxSpecs)
    /\ \E o \in Opaques :
          request = [id |-> "doc1", partition |-> 5, opaque |-> o,
                     specs |-> [i \in 1..Len(submitted) |-> Entry(submitted[i])]]
    /\ doc \in Docs
    /\ encoded = <<>>
    /\ encodes = 0
    /\ kvec = NoError
    /\ frame = EmptyFrame
    /\ response = <<>>
    /\ writes = {}
    /\ kvpc = "built"

\* The session encodes the request (again on every re-send).
EncodeTo ==
    /\ kvpc \in {"built", "encoded"}
    /\ encodes < MaxEncodes
    /\ encodes' = encodes + 1
    /\ kvpc' = "encoded"
    /\ IF op = "get"
       THEN /\ encoded' = <<get_encode_to(request)>>
            /\ UNCHANGED request
       ELSE /\ encoded' = <<lookup_in_encode_to(request)>>
            /\ request' = [request EXCEPT !.specs = lookup_in_encode_specs(request.specs)]
    /\ UNCHANGED <<op, submitted, doc, kvec, frame, response, writes>>
    /\ UNCHANGED <<httpVars, ioVars>>

\* A response frame arrives and is decoded; the session maps its status to
\* the error code it passes on.
ServerReply ==
    /\ kvpc = "encoded"
    /\ \E o \in WireOpaques(request), ec \in ErrorCodes,
          k \in 0 .. (Len(encoded[1].specs) + MaxExtraFields) :
          /\ op = "get" => k = 0
          /\ frame' = [opaque |-> o, cas |-> doc.cas, flags |-> doc.flags,
                       value |-> doc.value,
                       fields |-> ServerFields(doc, encoded[1].specs, k)]
          /\ kvec' = ec
    /\ kvpc' = "received"
    /\ UNCHANGED <<op, request, submitted, encoded, encodes, doc, response, writes>>
    /\ UNCHANGED <<httpVars, ioVars>>

\* No frame arrives: the operation times out with nothing decoded.
Timeout ==
    /\ kvpc = "encoded"
    /\ frame' = EmptyFrame
    /\ kvec' = "request_timeout"
    /\ kvpc' = "received"
    /\ UNCHANGED <<op, request, submitted, encoded, encodes, doc, response, writes>>
    /\ UNCHANGED <<httpVars, ioVars>>

\* The copy loop of lookup_in make_response indexes response.fields past its end.
OutOfRange ==
    /\ op = "lookup_in"
    /\ kvec = NoError
    /\ Len(frame.fields) > Len(request.specs)

\* make_response returns the response.  When the copy loop ran out of range
\* (undefined behaviour) this is the outcome in which the stray writes hit
\* memory outside the array and the call goes on.
MakeResponse ==
    /\ kvpc = "received"
    /\ response' = IF op = "get"
                   THEN <<get_make_response(kvec, request, frame)>>
                   ELSE <<lookup_in_make_response(kvec, request, frame)>>
    /\ writes' = IF op = "lookup_in" /\ kvec = NoError
                 THEN CopyIndexes(frame.fields) ELSE {}
    /\ kvpc' = "done"
    /\ UNCHANGED <<op, request, submitted, encoded, encodes, doc, kvec, frame>>
    /\ UNCHANGED <<httpVars, ioVars>>

\* The other outcome of the out-of-range writes: the process faults and no
\* response is returned.
MakeResponseFault ==
    /\ kvpc = "received"
    /\ OutOfRange
    /\ writes' = CopyIndexes(frame.fields)
    /\ kvpc' = "crashed"
    /\ UNCHANGED <<op, request, submitted, encoded, encodes, doc, kvec, frame, response>>
    /\ UNCHANGED <<httpVars, ioVars>>

NextKV ==
    \/ EncodeTo
    \/ ServerReply
    \/ Timeout
    \/ MakeResponse
    \/ MakeResponseFault

(***************************************************************************)
(* analytics_index_get_all                                                 *)
(***************************************************************************)

\* tao::json values: a tag and the value; an object is a function from the
\* keys it has.
JStr(x) == [t |-> "string", v |-> x]
JNum(x) == [t |-> "number", v |-> x]
JBool(x) == [t |-> "boolean", v |-> x]
JArr(x) == [t |-> "array", v |-> x]
JObj(x) == [t |-> "object", v |-> x]

\* An object with the keys ks, taken from the full object f.
Only(f, ks) == [k \in ks |-> f[k]]

FullIndex(name, primary) ==
    [k \in {"IndexName", "DataverseName", "DatasetName", "IsPrimary"} |->
        CASE k = "IndexName"     -> JStr(name)
          [] k = "DataverseName" -> JStr("Default")
          [] k = "DatasetName"   -> JStr("ds")
          [] k = "IsPrimary"     -> JBool(primary)]

\* Result records a body may carry: complete ones, and ones lacking a field.
IndexItems ==
    { JObj(FullIndex("idx1", FALSE)),
      JObj(FullIndex("idx2", TRUE)),
      JObj(Only(FullIndex("idx3", FALSE), {"IndexName", "DataverseName", "DatasetName"})),
      JObj(Only(FullIndex("idx4", FALSE), {"DataverseName", "DatasetName", "IsPrimary"})) }

FullError(code, msg) ==
    [k \in {"code", "msg"} |-> IF k = "code" THEN JNum(code) ELSE JStr(msg)]

\* Error records a body may carry: complete ones, and one lacking msg.
ErrorItems ==
    { JObj(FullError(24000, "Parse error")),
      JObj(FullError(23007, "Timeout")),
      JObj(Only(FullError(24001, ""), {"code"})) }

\* The values the optional keys of a body may have.
StatusValues == {JStr("success"), JStr("errors"), JStr("fatal"), JNum(1)}
ResultsValues == {JStr("none")} \cup { JArr(a) : a \in SeqsUpTo(IndexItems, MaxRecords) }
ErrorsValues == {JStr("none")} \cup { JArr(a) : a \in SeqsUpTo(ErrorItems, MaxRecords) }

\* The decoded bodies: an object with any subset of the keys status, results
\* and errors (a status of success comes with results, any other with errors).
Payloads ==
    { JObj(<<>>) }
    \cup { JObj([k \in {"status"} |-> st]) : st \in StatusValues }
    \cup { JObj([k \in {"results"} |-> r]) : r \in ResultsValues }
    \cup { JObj([k \in {"status", "results"} |->
                  IF k = "status" THEN JStr("success") ELSE r]) : r \in ResultsValues }
    \cup { JObj([k \in {"status", "errors"} |->
                  IF k = "status" THEN st ELSE e]) :
              st \in {JStr("errors"), JStr("fatal")}, e \in ErrorsValues }

\* encoded.body: text that is no JSON document, or a JSON object.
NotJson == [t |-> "invalid", v |-> <<>>]
Bodies == {NotJson} \cup Payloads

HttpErrorCodes == {NoError, "unambiguous_timeout"}

\* value.find(key) != nullptr
Has(obj, key) == key \in DOMAIN obj.v

\* value.at(key) throws std::out_of_range when the key is missing.
AtThrows(obj, key) == ~Has(obj, key)

\* One result record: the four at(...).get_...() calls; some throws.
IndexThrows(res) ==
    \/ AtThrows(res, "IndexName")
    \/ AtThrows(res, "DataverseName")
    \/ AtThrows(res, "DatasetName")
    \/ AtThrows(res, "IsPrimary")

IndexOf(res) ==
    [name |-> res.v["IndexName"].v, dataverse_name |-> res.v["DataverseName"].v,
     dataset_name |-> res.v["DatasetName"].v, is_primary |-> res.v["IsPrimary"].v]

\* One error record: error.at("code").as<uint32_t>(), error.at("msg").get_string()
ProblemThrows(error) == AtThrows(error, "code") \/ AtThrows(error, "msg")

\* Mutant: the message is stored, the code is left at 0.
ProblemOfMessageOnly(error) == [code |-> 0, message |-> error.v["msg"].v]

ProblemOf(error) == [code |-> error.v["code"].v, message |-> error.v["msg"].v]

\* results != nullptr && results->is_array()
HasArray(payload, key) == Has(payload, key) /\ payload.v[key].t = "array"

\* Mutant: the loop over the array stops one element early.
ArrayOfButLast(payload, key) ==
    IF HasArray(payload, key) /\ Len(payload.v[key].v) > 0
    THEN SubSeq(payload.v[key].v, 1, Len(payload.v[key].v) - 1)
    ELSE <<>>

ArrayOf(payload, key) == IF HasArray(payload, key) THEN payload.v[key].v ELSE <<>>

\* Whether make_response leaves by an exception instead of returning:
\* from_string on a body that is no JSON, payload.at("status") on a body
\* without status, get_string() on a status that is no string, at(...) on a
\* record lacking a field.
analytics_make_response_throws(ec, body) ==
    IF ec # NoError THEN FALSE
    ELSE IF body.t = "invalid" THEN TRUE
    ELSE IF AtThrows(body, "status") THEN TRUE
    ELSE IF body.v["status"].t # "string" THEN TRUE
    ELSE IF body.v["status"].v = "success"
         THEN \E i \in DOMAIN ArrayOf(body, "results") :
                 IndexThrows(ArrayOf(body, "results")[i])
         ELSE \E i \in DOMAIN ArrayOf(body, "errors") :
                 ProblemThrows(ArrayOf(body, "errors")[i])

\* make_response(ec, analytics_index_get_all_request&, http_response), when
\* it returns.
analytics_make_response(ec, req, body) ==
    IF ec # NoError
    THEN [client_context_id |-> req.client_context_id, ec |-> ec, status |-> "",
          indexes |-> <<>>, errors |-> <<>>]
    ELSE LET status == body.v["status"].v
             results == ArrayOf(body, "results")
             errors == ArrayOf(body, "errors")
         IN IF status = "success"
            THEN [client_context_id |-> req.client_context_id, ec |-> NoError,
                  status |-> status,
                  indexes |-> [i \in DOMAIN results |-> IndexOf(results[i])],
                  errors |-> <<>>]
            ELSE [client_context_id |-> req.client_context_id,
                  ec |-> "internal_server_failure",
                  status |-> status,
                  indexes |-> <<>>,
                  errors |-> [i \in DOMAIN errors |-> ProblemOf(errors[i])]]

\* analytics_index_get_all_request::encode_to
analytics_encode_to(req) ==
    [content_type |-> "application/json", method |-> "POST",
     path |-> "/analytics/service",
     statement |-> "SELECT d.* FROM Metadata.Index d WHERE d.DataverseName <> Metadata"]

NoHttpInput == [ec |-> NoError, body |-> NotJson]

InitHttp ==
    /\ hreq \in { [client_context_id |-> c] : c \in {"ctx-1", "ctx-2"} }
    /\ henc = <<>>
    /\ hin = NoHttpInput
    /\ hout = <<>>
    /\ hpc = "built"

HttpEncodeTo ==
    /\ hpc = "built"
    /\ henc' = <<analytics_encode_to(hreq)>>
    /\ hpc' = "encoded"
    /\ UNCHANGED <<hreq, hin, hout>>
    /\ UNCHANGED <<kvVars, ioVars>>

\* The http session completes: with a transport error, or with a body.
HttpReceive ==
    /\ hpc = "encoded"
    /\ \E ec \in HttpErrorCodes, body \in Bodies : hin' = [ec |-> ec, body |-> body]
    /\ hpc' = "received"
    /\ UNCHANGED <<hreq, henc, hout>>
    /\ UNCHANGED <<kvVars, ioVars>>

\* make_response returns a response.
HttpMakeResponse ==
    /\ hpc = "received"
    /\ ~analytics_make_response_throws(hin.ec, hin.body)
    /\ hout' = <<analytics_make_response(hin.ec, hreq, hin.body)>>
    /\ hpc' = "done"
    /\ UNCHANGED <<hreq, henc, hin>>
    /\ UNCHANGED <<kvVars, ioVars>>

\* make_response is left by an exception: no response is returned.
HttpMakeResponseThrows ==
    /\ hpc = "received"
    /\ analytics_make_response_throws(hin.ec, hin.body)
    /\ hpc' = "thrown"
    /\ UNCHANGED <<hreq, henc, hin, hout>>
    /\ UNCHANGED <<kvVars, ioVars>>

NextHttp ==
    \/ HttpEncodeTo
    \/ HttpReceive
    \/ HttpMakeResponse
    \/ HttpMakeResponseThrows

(***************************************************************************)
(* Streams                                                                 *)
(***************************************************************************)

Threads == 1..NumThreads
OpKinds == {"connect", "handshake", "write", "read"}
Idle == "idle"

\* asio::error::operation_aborted
Aborted == "operation_aborted"

\* The error with which an operation fails on its own.
IoError(o) ==
    CASE o = "connect"   -> "connection_refused"
      [] o = "handshake" -> "handshake_failed"
      [] OTHER           -> "eof"

\* The executor the completions of the socket are delivered through:
\* plain_stream_impl builds its socket on strand_, tls_stream_impl builds
\* its ssl stream on the io_context itself.
Executor(s) == IF s.tls THEN "io_context" ELSE "strand"

\* Mutant: the first stage forwards every error, operation_aborted included.
tls_on_connect_forwards_abort(ec) ==
    IF ec # NoError THEN "handler" ELSE "handshake"

\* Mutant: the first stage goes on to the handshake after a failed connect.
tls_on_connect_ignores_error(ec) ==
    IF ec = Aborted THEN "return" ELSE "handshake"

\* tls_stream_impl::async_connect, the lambda run when the connect completes
tls_on_connect(ec) ==
    IF ec = Aborted THEN "return"
    ELSE IF ec # NoError THEN "handler"
    ELSE "handshake"

\* Mutant: the second stage reports success only.
tls_on_handshake_drops_errors(ec) ==
    IF ec # NoError THEN "return" ELSE "handler"

\* tls_stream_impl::async_connect, the lambda run when the handshake completes
tls_on_handshake(ec) ==
    IF ec = Aborted THEN "return" ELSE "handler"

\* plain_stream_impl::async_connect hands the caller's handler to the socket.
plain_on_connect(ec) == "handler"

\* What the completion of operation o does: invoke the caller's handler,
\* start the handshake, or return silently.  async_write and
\* async_read_some hand the caller's handler to asio in both stream kinds.
OnComplete(s, o, ec) ==
    CASE o = "connect" /\ s.tls   -> tls_on_connect(ec)
      [] o = "connect" /\ ~s.tls  -> plain_on_connect(ec)
      [] o = "handshake"          -> tls_on_handshake(ec)
      [] OTHER                    -> "handler"

\* The caller's operation a completion belongs to.
CallerOp(o) == IF o = "handshake" THEN "connect" ELSE o

\* Mutant: closing a socket that is not open reports an error.
close_fails_when_closed(s) == [open |-> FALSE, error |-> ~s.open]

\* stream_.close() / stream_.lowest_layer().close(): the socket is closed;
\* closing a socket that is not open does nothing and reports no error.
socket_close(s) == [open |-> FALSE, error |-> FALSE]

\* is_open(): stream_.is_open() / stream_.lowest_layer().is_open()
is_open(s) == s.open

\* Closing the socket cancels the operations in flight: each completes with
\* operation_aborted.
CancelPending(o) ==
    IF o.stage = "pending" THEN [stage |-> "ready", ec |-> Aborted] ELSE o

NoHistory ==
    [connectEc |-> "none", handshakeStarted |-> FALSE, connected |-> FALSE,
     closes |-> 0, closeError |-> FALSE, ios |-> 0]

InitStream ==
    /\ stream \in { [tls |-> b, open |-> FALSE] : b \in BOOLEAN }
    /\ ops = [o \in OpKinds |-> [stage |-> Idle, ec |-> NoError]]
    /\ running = [t \in Threads |-> Idle]
    /\ calls = <<>>
    /\ hist = NoHistory

\* async_connect(endpoint, handler): the socket is opened and the connect
\* started.
AsyncConnect ==
    /\ ops["connect"].stage = Idle
    /\ hist.closes = 0
    /\ stream' = [stream EXCEPT !.open = TRUE]
    /\ ops' = [ops EXCEPT !["connect"].stage = "pending"]
    /\ UNCHANGED <<running, calls, hist>>
    /\ UNCHANGED <<kvVars, httpVars>>

\* async_write / async_read_some (o) on a connected stream; on a closed
\* socket the operation fails at once.
AsyncIo(o) ==
    /\ o \in {"write", "read"}
    /\ hist.connected
    /\ ops[o].stage = Idle
    /\ hist.ios < MaxIo
    /\ ops' = [ops EXCEPT ![o] = IF stream.open
                                 THEN [stage |-> "pending", ec |-> NoError]
                                 ELSE [stage |-> "ready", ec |-> "bad_descriptor"]]
    /\ hist' = [hist EXCEPT !.ios = @ + 1]
    /\ UNCHANGED <<stream, running, calls>>
    /\ UNCHANGED <<kvVars, httpVars>>

\* The I/O of operation o ends by itself, with success or with its error; the
\* completion is queued on the executor.
IoComplete(o) ==
    /\ ops[o].stage = "pending"
    /\ \E ec \in {NoError, IoError(o)} :
          /\ ops' = [ops EXCEPT ![o] = [stage |-> "ready", ec |-> ec]]
          /\ hist' = IF o = "connect" THEN [hist EXCEPT !.connectEc = ec] ELSE hist
    /\ UNCHANGED <<stream, running, calls>>
    /\ UNCHANGED <<kvVars, httpVars>>

\* close()
Close ==
    /\ hist.closes < MaxCloses
    /\ LET r == socket_close(stream)
       IN /\ stream' = [stream EXCEPT !.open = r.open]
          /\ hist' = [hist EXCEPT !.closes = @ + 1,
                                  !.closeError = @ \/ r.error,
                                  !.connectEc = IF ops["connect"].stage = "pending"
                                                THEN Aborted ELSE @]
    /\ ops' = [o \in OpKinds |-> CancelPending(ops[o])]
    /\ UNCHANGED <<running, calls>>
    /\ UNCHANGED <<kvVars, httpVars>>

\* Worker thread t takes the queued completion of operation o from the
\* executor and runs it.  A strand runs one completion at a time; the
\* io_context runs one on every thread that is free.  The completion
\* invokes the caller's handler or not, as its code says.
RunHandler(t, o) ==
    /\ running[t] = Idle
    /\ ops[o].stage = "ready"
    /\ Executor(stream) = "strand" => \A u \in Threads : running[u] = Idle
    /\ running' = [running EXCEPT ![t] = o]
    /\ ops' = [ops EXCEPT ![o].stage = "running"]
    /\ LET ec == ops[o].ec
           act == OnComplete(stream, o, ec)
       IN /\ calls' = IF act = "handler"
                      THEN Append(calls, [op |-> CallerOp(o), ec |-> ec])
                      ELSE calls
          /\ hist' = [hist EXCEPT
                        !.connected = @ \/ (act = "handler" /\ CallerOp(o) = "connect"
                                                /\ ec = NoError)]
    /\ UNCHANGED stream
    /\ UNCHANGED <<kvVars, httpVars>>

\* The completion running on thread t returns.  The connect stage of a TLS
\* stream ends by starting the handshake (stream_.async_handshake is its
\* last statement); on a closed socket the handshake fails at once.
FinishHandler(t) ==
    /\ running[t] # Idle
    /\ running' = [running EXCEPT ![t] = Idle]
    /\ LET o == running[t]
           act == OnComplete(stream, o, ops[o].ec)
       IN /\ ops' = IF act = "handshake"
                    THEN [ops EXCEPT ![o].stage = "done",
                                     !["handshake"] =
                                        IF stream.open
                                        THEN [stage |-> "pending", ec |-> NoError]
                                        ELSE [stage |-> "ready", ec |-> "bad_descriptor"]]
                    ELSE [ops EXCEPT ![o].stage =
                             IF o \in {"write", "read"} THEN Idle ELSE "done"]
          /\ hist' = [hist EXCEPT !.handshakeStarted = @ \/ act = "handshake"]
    /\ UNCHANGED <<stream, calls>>
    /\ UNCHANGED <<kvVars, httpVars>>

NextStream ==
    \/ AsyncConnect
    \/ \E o \in {"write", "read"} : AsyncIo(o)
    \/ \E o \in OpKinds : IoComplete(o)
    \/ Close
    \/ \E t \in Threads, o \in OpKinds : RunHandler(t, o)
    \/ \E t \in Threads : FinishHandler(t)

(***************************************************************************)
(* Specifications                                                          *)
(***************************************************************************)

\* The subsystems a specification does not exercise stay as constructed.
IdleKV ==
    /\ op = "get"
    /\ submitted = <<>>
    /\ request = [id |-> "doc1", partition |-> 5, opaque |-> 0, specs |-> <<>>]
    /\ doc \in { d \in Docs : d.cas = 42 }
    /\ encoded = <<>>
    /\ encodes = 0
    /\ kvec = NoError
    /\ frame = EmptyFrame
    /\ response = <<>>
    /\ writes = {}
    /\ kvpc = "built"

IdleHttp ==
    /\ hreq = [client_context_id |-> "ctx-1"]
    /\ henc = <<>>
    /\ hin = NoHttpInput
    /\ hout = <<>>
    /\ hpc = "built"

IdleStream ==
    /\ stream = [tls |-> FALSE, open |-> FALSE]
    /\ ops = [o \in OpKinds |-> [stage |-> Idle, ec |-> NoError]]
    /\ running = [t \in Threads |-> Idle]
    /\ calls = <<>>
    /\ hist = NoHistory

\* Key/value operations: get and lookup_in.
Init == InitKV /\ IdleHttp /\ IdleStream
Next == NextKV
Spec == Init /\ [][Next]_vars

\* analytics_index_get_all.
HttpInit == IdleKV /\ InitHttp /\ IdleStream
HttpNext == NextHttp
SpecHttp == HttpInit /\ [][HttpNext]_vars

\* The plain and the TLS stream.
StreamInit == IdleKV /\ IdleHttp /\ InitStream
StreamNext == NextStream
SpecStream == StreamInit /\ [][StreamNext]_vars

\* The streams with the scheduling the io_context gives: an operation in
\* flight completes, a queued completion is run by a free worker thread,
\* and a running completion returns.
StreamFairness ==
    /\ WF_vars(\E o \in OpKinds : IoComplete(o))
    /\ WF_vars(\E t \in Threads, o \in OpKinds : RunHandler(t, o))
    /\ WF_vars(\E t \in Threads : FinishHandler(t))

SpecStreamFair == SpecStream /\ StreamFairness

(***************************************************************************)
(* Properties                                                              *)
(***************************************************************************)

\* The response of a lookup_in that make_response returned.
LookupDone == op = "lookup_in" /\ kvpc = "done"

Fields == response[1].fields

IsXattr(c) == XattrBit(c.flags) # 0
IsBody(c) == XattrBit(c.flags) = 0

\* A submitted list that encode_to has to reorder: a body path before an
\* xattr path.
Reordered ==
    \E i, j \in 1..Len(submitted) : i < j /\ IsBody(submitted[i]) /\ IsXattr(submitted[j])

\* C1: order restoration law. In every response of a lookup_in that was
\* encoded with encode_to and answered through make_response, the field at
\* index i has original_index i (indexes are zero based).
C1_OrderRestoration ==
    LookupDone => \A i \in 1..Len(Fields) : Fields[i].original_index = i - 1

C1_Witness ==
    /\ LookupDone
    /\ kvec = NoError
    /\ Reordered
    /\ Len(Fields) = Len(submitted)
    /\ Len(submitted) >= 3

\* C2: round trip. After one encode_to and a successful frame that carries
\* one field per spec in transmission order, the response lists the paths in
\* the order the caller submitted them, each field with the opcode and path
\* of the caller's spec at that position and with the status and value the
\* server looked up for that path.
C2_RoundTrip ==
    (LookupDone /\ encodes = 1 /\ kvec = NoError /\ Len(frame.fields) = Len(submitted))
    => /\ Len(Fields) = Len(submitted)
       /\ \A i \in 1..Len(submitted) :
             /\ Fields[i].path = submitted[i].path
             /\ Fields[i].opcode = submitted[i].opcode
             /\ Fields[i].status = doc.paths[submitted[i].path].status
             /\ Fields[i].value = doc.paths[submitted[i].path].value

\* The scenario [a (body), $xtoc (xattr)]: sent as [$xtoc, a], returned as
\* [a, $xtoc].
C2_Witness ==
    /\ LookupDone /\ encodes = 1 /\ kvec = NoError
    /\ Len(submitted) = 2 /\ Len(frame.fields) = 2
    /\ submitted[1].path = "a" /\ submitted[2].path = "$xtoc"
    /\ encoded[1].specs[1].path = "$xtoc" /\ encoded[1].specs[2].path = "a"
    /\ Fields[1].path = "a" /\ Fields[2].path = "$xtoc"
    /\ Fields[1].value # Fields[2].value

\* The spec a transmitted entry carries, without the stamped index.
SpecOf(e) == [opcode |-> e.opcode, path |-> e.path, flags |-> e.flags]

Transmitted == [i \in 1..Len(encoded[1].specs) |-> SpecOf(encoded[1].specs[i])]

ZeroBased(n) == [i \in 1..n |-> i - 1]

\* C3: after encode_to the transmitted specs are a stable partition of the
\* submitted ones: the xattr specs first, then the others, each group in
\* the caller's relative order; after the first encode_to the stamped
\* indexes name the positions the specs came from.
C3_StablePartition ==
    (op = "lookup_in" /\ encoded # <<>>)
    => /\ Transmitted = SelectSeq(submitted, IsXattr) \o SelectSeq(submitted, IsBody)
       /\ encodes = 1 =>
             [i \in 1..Len(encoded[1].specs) |-> encoded[1].specs[i].original_index]
               = SelectSeq(ZeroBased(Len(submitted)), LAMBDA k : IsXattr(submitted[k + 1]))
                 \o SelectSeq(ZeroBased(Len(submitted)), LAMBDA k : IsBody(submitted[k + 1]))

\* Two specs in each group, interleaved, so that stability shows.
C3_Witness ==
    /\ op = "lookup_in" /\ kvpc = "encoded" /\ encodes = 1
    /\ Len(submitted) = 3
    /\ submitted[1].path = "b" /\ submitted[2].path = "$doc" /\ submitted[3].path = "a"
    /\ Transmitted[1].path = "$doc" /\ Transmitted[2].path = "b" /\ Transmitted[3].path = "a"

\* The original_index values of the fields are a bijection onto 0..n-1.
IndexBijection(fields, n) ==
    /\ \A i \in 1..Len(fields) : fields[i].original_index \in 0..(n - 1)
    /\ \A k \in 0..(n - 1) :
          Cardinality({ i \in 1..Len(fields) : fields[i].original_index = k }) = 1

\* C4 as stated: whatever the error code, the response has as many fields
\* as specs were submitted, and original_index is a bijection onto 0..n-1.
C4_FieldCountAnyError ==
    LookupDone => /\ Len(Fields) = Len(submitted)
                  /\ IndexBijection(Fields, Len(submitted))

\* C4 amended: a response returned without error has as many fields as
\* specs were submitted, with original_index a bijection onto 0..n-1; a
\* response returned with the error code set has no fields.
C4_FieldCount ==
    LookupDone => IF kvec = NoError
                  THEN /\ Len(Fields) = Len(submitted)
                       /\ IndexBijection(Fields, Len(submitted))
                  ELSE Fields = <<>>

C4_Witness ==
    /\ LookupDone
    /\ kvec # NoError
    /\ Len(submitted) >= 2
    /\ Len(frame.fields) >= 1
    /\ Fields = <<>>

\* C5: every get and lookup_in response carries the id of the request, and
\* as opaque the token of the decoded frame, or, when the error is set and
\* the frame has none (0), the opaque of the request.
C5_Correlation ==
    kvpc = "done"
    => /\ response[1].id = request.id
       /\ IF kvec # NoError /\ frame.opaque = 0
          THEN response[1].opaque = request.opaque
          ELSE response[1].opaque = frame.opaque

C5_Witness ==
    /\ kvpc = "done"
    /\ kvec # NoError
    /\ frame.opaque = 0
    /\ request.opaque # 0
    /\ response[1].opaque = request.opaque

\* C6: cancellation law. Once the connect stage of a TLS async_connect has
\* completed with operation_aborted, the caller's handler is never invoked
\* and no handshake is started.
C6_TlsConnectAbortSilent ==
    (stream.tls /\ hist.connectEc = Aborted)
    => calls = <<>> /\ ~hist.handshakeStarted /\ ops["handshake"].stage = Idle

C6_Witness ==
    /\ stream.tls
    /\ hist.connectEc = Aborted
    /\ ops["connect"].stage = "done"
    /\ \A t \in Threads : running[t] = Idle

\* C7: the completions of one stream, plain or TLS, never execute at the
\* same time on two worker threads.
C7_CompletionsSerialized ==
    Cardinality({ t \in Threads : running[t] # Idle }) <= 1

\* C8: for both stream kinds, the caller's handler of async_connect is never
\* invoked with operation_aborted.
C8_ConnectAbortSilent ==
    \A i \in 1..Len(calls) : ~(calls[i].op = "connect" /\ calls[i].ec = Aborted)

\* C9: close is idempotent for both stream kinds. After a successful
\* connect every close leaves is_open false and reports no error, and a
\* close that follows a close changes nothing.
C9_CloseIdempotent ==
    [][(hist'.closes = hist.closes + 1 /\ hist.connected)
       => /\ ~is_open(stream')
          /\ ~hist'.closeError
          /\ hist.closes >= 1 =>
                /\ stream' = stream
                /\ ops' = ops
                /\ calls' = calls
                /\ running' = running]_vars

C9_Witness ==
    /\ hist.connected
    /\ hist.closes = 2
    /\ ~is_open(stream)
    /\ ~hist.closeError

\* C10: make_response of analytics_index_get_all always returns a response,
\* with the client_context_id of the request and with a transport error
\* passed in returned unchanged in ec.
C10_ResponseAlwaysConstructed ==
    hpc \in {"done", "thrown"}
    => /\ hout # <<>>
       /\ hout[1].client_context_id = hreq.client_context_id
       /\ hin.ec # NoError => hout[1].ec = hin.ec

\* The body make_response was given, and its status when it has a string one.
Body == hin.body

HasStatus == Body.t = "object" /\ Has(Body, "status") /\ Body.v["status"].t = "string"

\* The elements of the body's array under key (none when the key is absent
\* or holds no array).
BodyArray(key) ==
    IF Has(Body, key) /\ Body.v[key].t = "array" THEN Body.v[key].v ELSE <<>>

\* Every element of the errors array is a {code, msg} record.
ErrorRecordsComplete ==
    \A i \in 1..Len(BodyArray("errors")) : DOMAIN BodyArray("errors")[i].v = {"code", "msg"}

\* C11: a body received without transport error whose status is not
\* "success" gives a response with ec = internal_server_failure, with one
\* {code, message} problem per element of the errors array, in the same
\* order (none when the array is absent), and with no indexes.
C11_FailureStatus ==
    (hpc \in {"done", "thrown"} /\ hin.ec = NoError /\ HasStatus
        /\ Body.v["status"].v # "success" /\ ErrorRecordsComplete)
    => /\ hpc = "done"
       /\ hout[1].ec = "internal_server_failure"
       /\ hout[1].indexes = <<>>
       /\ Len(hout[1].errors) = Len(BodyArray("errors"))
       /\ \A i \in 1..Len(BodyArray("errors")) :
             /\ hout[1].errors[i].code = BodyArray("errors")[i].v["code"].v
             /\ hout[1].errors[i].message = BodyArray("errors")[i].v["msg"].v

\* The scenario status = "errors" with the one error {24000, "Parse error"}.
C11_Witness ==
    /\ hpc = "done" /\ hin.ec = NoError /\ HasStatus
    /\ Body.v["status"].v = "errors"
    /\ Len(BodyArray("errors")) = 1
    /\ hout[1].errors = <<[code |-> 24000, message |-> "Parse error"]>>
    /\ hout[1].ec = "internal_server_failure"

\* Every element of the results array is a complete index record.
ResultRecordsComplete ==
    \A i \in 1..Len(BodyArray("results")) :
        DOMAIN BodyArray("results")[i].v
          = {"IndexName", "DataverseName", "DatasetName", "IsPrimary"}

\* C12: a body received without transport error whose status is "success"
\* gives a response with ec not set and no errors; without a results array
\* (key absent, or no array) the index list is empty, with one it holds one
\* index per element, in the same order.
C12_SuccessStatus ==
    (hpc \in {"done", "thrown"} /\ hin.ec = NoError /\ HasStatus
        /\ Body.v["status"].v = "success" /\ ResultRecordsComplete)
    => /\ hpc = "done"
       /\ hout[1].ec = NoError
       /\ hout[1].errors = <<>>
       /\ Len(hout[1].indexes) = Len(BodyArray("results"))
       /\ \A i \in 1..Len(BodyArray("results")) :
             LET res == BodyArray("results")[i].v
                 idx == hout[1].indexes[i]
             IN /\ idx.name = res["IndexName"].v
                /\ idx.dataverse_name = res["DataverseName"].v
                /\ idx.dataset_name = res["DatasetName"].v
                /\ idx.is_primary = res["IsPrimary"].v

\* The scenario status = "success" without a results field.
C12_Witness ==
    /\ hpc = "done" /\ hin.ec = NoError /\ HasStatus
    /\ Body.v["status"].v = "success"
    /\ ~Has(Body, "results")
    /\ hout[1].indexes = <<>>
    /\ hout[1].ec = NoError

\* C13: a get response built without error carries the value, cas and flags
\* of the decoded frame and no error; one built with an error carries that
\* error and the defaults (empty value, cas 0, flags 0), whatever the frame.
C13_GetPayload ==
    (op = "get" /\ kvpc = "done")
    => /\ response[1].ec = kvec
       /\ IF kvec = NoError
          THEN /\ response[1].value = frame.value
               /\ response[1].cas = frame.cas
               /\ response[1].flags = frame.flags
          ELSE /\ response[1].value = ""
               /\ response[1].cas = 0
               /\ response[1].flags = 0

\* The scenario: id "doc1", partition 5, a successful frame with cas 42,
\* flags 0 and value "hello".
C13_Witness ==
    /\ op = "get" /\ kvpc = "done" /\ kvec = NoError
    /\ encoded[1].id = "doc1" /\ encoded[1].partition = 5
    /\ frame.cas = 42 /\ frame.flags = 0 /\ frame.value = "hello"
    /\ response[1] = [id |-> "doc1", opaque |-> frame.opaque, ec |-> NoError,
                      value |-> "hello", cas |-> 42, flags |-> 0]

\* The completion of operation o has been run (or is running).
Ran(o) == ops[o].stage \in {"running", "done"}

\* C14: in the TLS async_connect the handshake is started only after the
\* connect stage completed successfully and its completion has run; a
\* connect stage that failed with another error than operation_aborted
\* invokes the handler with exactly that error and starts no handshake; a
\* handshake that completed with anything but operation_aborted hands its
\* outcome to the handler.
C14_TlsTwoStage ==
    stream.tls
    => /\ (hist.handshakeStarted \/ ops["handshake"].stage # Idle)
            => (hist.connectEc = NoError /\ ops["connect"].stage = "done")
       /\ (Ran("connect") /\ hist.connectEc \notin {NoError, Aborted})
            => /\ calls = <<[op |-> "connect", ec |-> hist.connectEc]>>
               /\ ~hist.handshakeStarted
               /\ ops["handshake"].stage = Idle
       /\ (Ran("handshake") /\ ops["handshake"].ec # Aborted)
            => /\ Len(calls) >= 1
               /\ calls[1] = [op |-> "connect", ec |-> ops["handshake"].ec]

\* A connect that succeeded followed by a handshake that failed: the
\* handler got the handshake's error.
C14_Witness ==
    /\ stream.tls
    /\ hist.connectEc = NoError
    /\ hist.handshakeStarted
    /\ ops["handshake"].stage = "done"
    /\ calls = <<[op |-> "connect", ec |-> "handshake_failed"]>>

\* The invocations of the handler given to async_connect.
ConnectCalls == SelectSeq(calls, LAMBDA c : c.op = "connect")

\* A stage of the TLS connect ended with operation_aborted.
StageAborted ==
    \/ hist.connectEc = Aborted
    \/ ops["handshake"].stage \in {"ready", "running", "done"} /\ ops["handshake"].ec = Aborted

\* The TLS connect is over: the handler was invoked, or the completion of
\* the aborted stage has run.
ConnectTerminal ==
    \/ Len(ConnectCalls) = 1
    \/ hist.connectEc = Aborted /\ Ran("connect")
    \/ ops["handshake"].ec = Aborted /\ Ran("handshake")

\* C15: the handler of a TLS async_connect is invoked at most once, and
\* never when the connect or the handshake stage ended with
\* operation_aborted; when the started stages complete, the connect reaches
\* a terminal state, in which the handler was invoked exactly once unless a
\* stage was aborted.
C15_TlsConnectTerminates ==
    /\ [](stream.tls => /\ Len(ConnectCalls) <= 1
                        /\ StageAborted => Len(ConnectCalls) = 0)
    /\ (stream.tls /\ ops["connect"].stage = "pending") ~> ConnectTerminal

C15_Witness ==
    /\ stream.tls
    /\ ~StageAborted
    /\ ops["handshake"].stage = "done"
    /\ ConnectCalls = <<[op |-> "connect", ec |-> NoError]>>
    /\ hist.connected

\* The entry of the response for the spec transmitted at position j.
FieldOfSent(j) == Fields[encoded[1].specs[j].original_index + 1]

\* C16: partial response. A successful frame with k decoded fields, k
\* smaller than the number n of specs, gives a response without error in
\* which the k specs transmitted first carry the status, existence flag and
\* value of the wire, and the other n - k keep the default status success;
\* every entry has the opcode, path and original index of the request.
C16_PartialResponse ==
    (LookupDone /\ kvec = NoError /\ Len(frame.fields) < Len(submitted))
    => /\ response[1].ec = NoError
       /\ Len(Fields) = Len(submitted)
       /\ \A j \in 1..Len(encoded[1].specs) :
             /\ FieldOfSent(j).opcode = encoded[1].specs[j].opcode
             /\ FieldOfSent(j).path = encoded[1].specs[j].path
             /\ FieldOfSent(j).original_index = encoded[1].specs[j].original_index
             /\ IF j <= Len(frame.fields)
                THEN /\ FieldOfSent(j).status = frame.fields[j].status
                     /\ FieldOfSent(j).value = frame.fields[j].value
                     /\ FieldOfSent(j).exists
                          = (frame.fields[j].status \in {"success", "subdoc_success_deleted"})
                ELSE /\ FieldOfSent(j).status = "success"
                     /\ FieldOfSent(j).value = ""

\* One field decoded for three specs that were reordered.
C16_Witness ==
    /\ LookupDone /\ kvec = NoError
    /\ Len(submitted) = 3 /\ Len(frame.fields) = 1
    /\ Reordered
    /\ frame.fields[1].status = "subdoc_success_deleted"
    /\ FieldOfSent(1).status = "subdoc_success_deleted"
    /\ FieldOfSent(2).status = "success"

\* C17: however many times encode_to was called on the request before
\* make_response, the fields of a successful response are in the order in
\* which the caller submitted the specs: the field at position i has the
\* opcode and path of the i-th submitted spec.
C17_ReencodeKeepsOrder ==
    (LookupDone /\ kvec = NoError)
    => /\ Len(Fields) = Len(submitted)
       /\ \A i \in 1..Len(submitted) :
             /\ Fields[i].path = submitted[i].path
             /\ Fields[i].opcode = submitted[i].opcode

\* C18: every index the copy loop of lookup_in make_response writes is
\* smaller than response.fields.size(), the number of specs of the request,
\* whatever the number of decoded fields of the frame.
C18_WritesInRange ==
    (op = "lookup_in" /\ kvpc \in {"done", "crashed"})
    => \A i \in writes : i < Len(request.specs)

\* C19 as stated: in a successful lookup_in response every field, the
\* unfilled ones of a partial response included, has exists true exactly
\* when its status is success or subdoc_success_deleted.
C19_ExistsIffSuccess ==
    (LookupDone /\ kvec = NoError)
    => \A i \in 1..Len(Fields) :
          Fields[i].exists
            <=> (Fields[i].status \in {"success", "subdoc_success_deleted"})

\* C19 amended: in a successful lookup_in response every field filled from
\* a decoded field of the frame has exists true exactly when its status is
\* success or subdoc_success_deleted; every field left unfilled by a partial
\* response has status success and exists false.
C19_ExistsIffSuccessWhenFilled ==
    (LookupDone /\ kvec = NoError)
    => \A j \in 1..Len(encoded[1].specs) :
          IF j <= Len(frame.fields)
          THEN FieldOfSent(j).exists
                 <=> (FieldOfSent(j).status
                        \in {"success", "subdoc_success_deleted"})
          ELSE FieldOfSent(j).status = "success" /\ ~FieldOfSent(j).exists

\* A partial response whose filled fields show an existing deleted-document
\* field and a missing path, and whose last field was left unfilled.
C19_Witness ==
    /\ LookupDone /\ kvec = NoError
    /\ Len(submitted) = 3 /\ Len(frame.fields) = 2
    /\ \E j \in 1..2 : /\ FieldOfSent(j).status = "subdoc_success_deleted"
                        /\ FieldOfSent(j).exists
    /\ \E j \in 1..2 : /\ FieldOfSent(j).status = "subdoc_path_not_found"
                        /\ ~FieldOfSent(j).exists
    /\ FieldOfSent(3).status = "success" /\ ~FieldOfSent(3).exists

====
